---------------------------- MODULE Spec2Model ----------------------------
(***************************************************************************)
(* sandbox_xd: a shared rapier2d world (src/src/state.rs, State) stepped   *)
(* by a spawned tokio task (the Simulation Driver, src/src/main.rs 16..24) *)
(* and read and mutated by the raylib frame loop on the main thread (the   *)
(* Presentation Loop, src/src/main.rs 39..72).                             *)
(*                                                                         *)
(* Coordinates are f32 in the source; every value used here is a small     *)
(* integer, which f32 represents and adds exactly.                         *)
(***************************************************************************)
EXTENDS Integers, Sequences, FiniteSets, TLC

(***************************************************************************)
(* Bounds of the model.                                                    *)
(***************************************************************************)
\* the most particles the pointer inserts in one run
MaxParticles == 2
\* the timer reading is capped here (the clock itself is unbounded)
MaxElapsed == 2
\* the cap of the timer reading in runs of the whole frame loop
MaxLoopElapsed == 1
\* the most particles inserted in a run checked for liveness
MaxFairParticles == 1
\* the colour of every tag from 0 up to this one is computed
MaxTagSample == 600

(***************************************************************************)
(* Program constants.                                                      *)
(***************************************************************************)
\* state.rs 136, 140, 144, 148: the offset of a wall's centre from the edge
WallOffset == 9999
\* state.rs 33, 41 (y) and 37, 45 (x): half the thickness of a wall
WallHalfThick == 10000
\* state.rs 33, 41: half the length of the top and bottom walls
WallHalfLenX == 30020
\* state.rs 37, 45: half the length of the left and right walls
WallHalfLenY == 20040
\* state.rs 124: cuboid(1.0, 1.0), the half extent of a particle
ParticleHalf == 1
\* main.rs 19: the tick interval 1/480 s, the unit of the model's timer
Interval == 1
\* main.rs 68: the alpha channel
Alpha == 255

(***************************************************************************)
(* Inputs.                                                                 *)
(***************************************************************************)
\* Window rectangles <<x, y, width, height>> the windowing library reports
\* (main.rs 40, 41).  The window is created 320 x 240 (main.rs 27, 28).
WindowRects == { <<0, 0, 320, 240>>, <<3, 2, 64, 238>> }

\* Pointer positions, relative to the window (main.rs 50).
MousePositions == { <<20, 237>> }

\* Readings of SystemTime::UNIX_EPOCH.elapsed() in nanoseconds (state.rs 126).
\* The clock is not guaranteed distinct between two inserts.
Tags == { 74565, 581 }

\* A failed clock read: elapsed() returns Err and unwrap() panics.
ClockErr == -1

(***************************************************************************)
(* The locks of State (state.rs 8..24), each a parking_lot Mutex.          *)
(***************************************************************************)
LockNames ==
    { "rigid_body_set", "collider_set", "physics_pipeline", "island_manager",
      "broad_phase", "narrow_phase", "impulse_joint_set", "multibody_joint_set",
      "ccd_solver", "query_pipeline",
      "box_left", "box_right", "box_top", "box_bottom" }

\* a faulty variant of StepLocks: the two sets left unlocked
StepLocksWithoutSets ==
    << "physics_pipeline", "island_manager", "broad_phase", "narrow_phase",
       "impulse_joint_set", "multibody_joint_set", "ccd_solver",
       "query_pipeline" >>

\* state.rs 85..96: the order in which step() locks (gravity and the
\* integration parameters are plain copies, not locks)
StepLocks ==
    << "physics_pipeline", "island_manager", "broad_phase", "narrow_phase",
       "rigid_body_set", "collider_set", "impulse_joint_set",
       "multibody_joint_set", "ccd_solver", "query_pipeline" >>

\* a faulty variant of InsertLocks: the two locks taken the other way round
InsertLocksSwapped == << "collider_set", "rigid_body_set" >>

\* state.rs 116, 117: the order in which insert_particle() locks
InsertLocks == << "rigid_body_set", "collider_set" >>

\* state.rs 135, 139, 143, 147: the order in which resize() visits the walls
ResizeOrder == << "box_top", "box_left", "box_bottom", "box_right" >>

Free == "free"
Driver == "driver"
UI == "ui"

\* a MutexGuard goes out of scope: every lock `who` holds is released
\* (parking_lot has no poisoning, so this is also what unwinding does)
DropGuards(l, who) == [n \in LockNames |-> IF l[n] = who THEN Free ELSE l[n]]

Held(l, who) == { n \in LockNames : l[n] = who }

(***************************************************************************)
(* Colliders and bodies.  A handle is the index in the arena: nothing is   *)
(* ever removed, so no index is reused.  Handle 0 is "no parent".          *)
(***************************************************************************)
\* a faulty variant of Cuboid: ColliderBuilder::ball(hx), a shape that is
\* not a box
Ball(hx, hy, tx, ty) ==
    [ shape |-> "Ball", hx |-> hx, hy |-> hx, tx |-> tx, ty |-> ty,
      user_data |-> 0, parent |-> 0 ]

\* ColliderBuilder::cuboid(hx, hy).translation(vector![tx, ty]).build()
Cuboid(hx, hy, tx, ty) ==
    [ shape |-> "Cuboid", hx |-> hx, hy |-> hy, tx |-> tx, ty |-> ty,
      user_data |-> 0, parent |-> 0 ]

\* RigidBodyBuilder::dynamic().translation(vector![x, y]).build() and wake_up
DynamicBody(x, y) == [ tx |-> x, ty |-> y, awake |-> TRUE, colliders |-> {} ]

NoCollider == << >>

(***************************************************************************)
(* State.                                                                  *)
(***************************************************************************)
VARIABLES
    colliders,   \* collider_set: the arena, a sequence of colliders
    bodies,      \* rigid_body_set: the arena, a sequence of bodies
    boxes,       \* box_left, box_right, box_top, box_bottom: wall handles
    locks,       \* each Mutex: Free, or the thread that holds it
    dpc,         \* the driver task's position
    dk,          \* step(): how many of StepLocks the driver has locked
    elapsed,     \* what time.elapsed() reads, in tick intervals (main.rs 19)
    upc,         \* the main thread's position
    ret,         \* where the World operation in progress returns to
    uk,          \* the main thread's index: lock, wall or collider in turn
    win,         \* wpos and size read this frame (main.rs 40, 41)
    last,        \* last_x, last_y, last_width, last_height (main.rs 33..36)
    args,        \* the arguments of the World operation in progress
    collider,    \* insert_particle's local collider, once built
    snap,        \* for_each_cube's clone of the collider set
    drawn,       \* the draw_rectangle calls of the frame, in order
    proc,        \* the process: "running" or "exited"
    ninserts,    \* history: insert_particle calls that have returned
    prevResize,  \* history: arguments and walls at the previous resize return
    sinceStep,   \* history: time since step() was last called, capped
    spawn        \* history: per body, the pointer and window offset it came from

worldVars == << colliders, bodies, boxes >>
driverVars == << dpc, dk, elapsed >>
uiVars == << upc, ret, uk, win, last, args, collider, snap, drawn >>
histVars == << ninserts, prevResize, sinceStep, spawn >>
vars == << worldVars, locks, driverVars, uiVars, proc, histVars >>

\* the translations of the four walls, by field name
Walls == [ w \in DOMAIN boxes |-> << colliders[boxes[w]].tx, colliders[boxes[w]].ty >> ]

NoResize == [ args |-> << >>, walls |-> << >> ]

(***************************************************************************)
(* State::new (state.rs 28..82) and the locals of main (main.rs 33..36).   *)
(***************************************************************************)
NewColliders ==
    << Cuboid(WallHalfLenX, WallHalfThick, 0, 139),     \* box_bottom, 33..36
       Cuboid(WallHalfThick, WallHalfLenY, -99, 0),     \* box_left,   37..40
       Cuboid(WallHalfLenX, WallHalfThick, 0, 0),       \* box_top,    41..44
       Cuboid(WallHalfThick, WallHalfLenY, 319, 0) >>   \* box_right,  45..48

NewBoxes ==
    [ box_bottom |-> 1, box_left |-> 2, box_top |-> 3, box_right |-> 4 ]

InitWorld ==
    /\ colliders = NewColliders
    /\ bodies = << >>
    /\ boxes = NewBoxes
    /\ locks = [ n \in LockNames |-> Free ]

InitDriver ==
    /\ dpc = "d_init"
    /\ dk = 0
    /\ elapsed = 0

\* a faulty variant of InitLocals: the cache set to the rectangle the window
\* is created with
InitLocalsCached ==
    /\ ret = "none"
    /\ uk = 0
    /\ win = << 0, 0, 0, 0 >>
    /\ last = << 0, 0, 320, 240 >>
    /\ args = << >>
    /\ collider = NoCollider
    /\ snap = << >>
    /\ drawn = << >>
    /\ proc = "running"
    /\ ninserts = 0
    /\ prevResize = NoResize
    /\ sinceStep = MaxElapsed
    /\ spawn = << >>

\* main.rs 33..36 and the state of the main thread before its first frame
InitLocals ==
    /\ ret = "none"
    /\ uk = 0
    /\ win = << 0, 0, 0, 0 >>
    /\ last = << 0, 0, 0, 0 >>
    /\ args = << >>
    /\ collider = NoCollider
    /\ snap = << >>
    /\ drawn = << >>
    /\ proc = "running"
    /\ ninserts = 0
    /\ prevResize = NoResize
    /\ sinceStep = MaxElapsed
    /\ spawn = << >>

Init ==
    /\ InitWorld
    /\ InitDriver
    /\ InitLocals
    /\ upc = "m_loop"

(***************************************************************************)
(* The Simulation Driver (main.rs 16..24) and State::step.                 *)
(***************************************************************************)
\* main.rs 17: let mut time = SystemTime::now()
DriverStart ==
    /\ proc = "running"
    /\ dpc = "d_init"
    /\ dpc' = "d_poll"
    /\ elapsed' = 0
    /\ UNCHANGED << worldVars, locks, dk, uiVars, proc, histVars >>

\* Wall-clock time passes; the readings are capped at `most`.
TickUpTo(most) ==
    /\ proc = "running"
    /\ dpc \notin { "d_init", "d_dead" }
    /\ elapsed < most
    /\ elapsed' = elapsed + 1
    /\ sinceStep' = IF sinceStep < most THEN sinceStep + 1 ELSE sinceStep
    /\ UNCHANGED << worldVars, locks, dpc, dk, uiVars, proc, ninserts,
                    prevResize, spawn >>

Tick == TickUpTo(MaxElapsed)

\* a faulty variant of Expired: the comparison with the interval left out
ExpiredAlways(e) == e >= 0

\* main.rs 19: the condition of the if, >= 1.0 / 480.0
Expired(e) == e >= Interval

\* main.rs 19: time.elapsed().unwrap() >= 1/480 s.  elapsed() is Err when the
\* system clock has been set back behind `time`; unwrap() then panics inside
\* the spawned task.  tokio catches a task's panic and stores it in the
\* JoinHandle, which main.rs 16 dropped: the task ends, the process goes on.
DriverPoll ==
    /\ proc = "running"
    /\ dpc = "d_poll"
    /\ \E ok \in BOOLEAN :
          dpc' = IF ~ok THEN "d_dead"
                 ELSE IF Expired(elapsed) THEN "s_lock"
                 ELSE "d_poll"
    /\ dk' = 0
    /\ sinceStep' = IF dpc' = "s_lock" THEN 0 ELSE sinceStep
    /\ UNCHANGED << worldVars, locks, elapsed, uiVars, proc, ninserts,
                    prevResize, spawn >>

\* state.rs 85..96: one lock() of step(), blocking while the mutex is held
StepLock ==
    /\ proc = "running"
    /\ dpc = "s_lock"
    /\ locks[StepLocks[dk + 1]] = Free
    /\ locks' = [ locks EXCEPT ![StepLocks[dk + 1]] = Driver ]
    /\ dk' = dk + 1
    /\ dpc' = IF dk + 1 = Len(StepLocks) THEN "s_pipeline" ELSE "s_lock"
    /\ UNCHANGED << worldVars, elapsed, uiVars, proc, histVars >>


\* physics_pipeline.step (state.rs 98..112), the external rapier2d integrator,
\* by its contract: it adds and removes nothing, it moves dynamic bodies only
\* (under gravity, until they rest on the inner face of the bottom wall), and
\* a collider with a parent follows its parent.  One call moves a falling
\* body by one unit.
Floor(cs, bx) == cs[bx.box_bottom].ty - cs[bx.box_bottom].hy

StepBodies(bs, cs, bx) ==
    [ b \in DOMAIN bs |->
        IF bs[b].awake /\ bs[b].colliders # {} /\ bs[b].ty + ParticleHalf < Floor(cs, bx)
        THEN [ bs[b] EXCEPT !.ty = @ + 1 ]
        ELSE bs[b] ]

StepColliders(bs, cs) ==
    [ c \in DOMAIN cs |->
        IF cs[c].parent \in DOMAIN bs
        THEN [ cs[c] EXCEPT !.tx = bs[cs[c].parent].tx, !.ty = bs[cs[c].parent].ty ]
        ELSE cs[c] ]

\* state.rs 98..112: the integration tick begins under all ten locks: the
\* bodies are moved, their colliders have not followed yet
StepPipeline ==
    /\ proc = "running"
    /\ dpc = "s_pipeline"
    /\ bodies' = StepBodies(bodies, colliders, boxes)
    /\ dpc' = "s_sync"
    /\ UNCHANGED << colliders, boxes, locks, dk, elapsed, uiVars, proc,
                    histVars >>

\* state.rs 98..113: the tick ends as the colliders follow their bodies, then
\* the guards go out of scope as step() returns
StepReturn ==
    /\ proc = "running"
    /\ dpc = "s_sync"
    /\ colliders' = StepColliders(bodies, colliders)
    /\ locks' = DropGuards(locks, Driver)
    /\ dpc' = "d_reset"
    /\ dk' = 0
    /\ UNCHANGED << bodies, boxes, elapsed, uiVars, proc, histVars >>

\* a faulty variant of DriverReset: the timer advanced by one interval
\* (time += 1/480 s), so that time owed is made up for
DriverResetCatchUp ==
    /\ proc = "running"
    /\ dpc = "d_reset"
    /\ elapsed' = elapsed - Interval
    /\ dpc' = "d_poll"
    /\ UNCHANGED << worldVars, locks, dk, uiVars, proc, histVars >>

\* main.rs 21: time = SystemTime::now()
DriverReset ==
    /\ proc = "running"
    /\ dpc = "d_reset"
    /\ elapsed' = 0
    /\ dpc' = "d_poll"
    /\ UNCHANGED << worldVars, locks, dk, uiVars, proc, histVars >>

DriverNext ==
    \/ DriverStart
    \/ DriverPoll
    \/ StepLock
    \/ StepPipeline
    \/ StepReturn
    \/ DriverReset

(***************************************************************************)
(* State::insert_particle (state.rs 115..130).                             *)
(***************************************************************************)
\* state.rs 116, 117: one lock() of insert_particle()
InsertLock ==
    /\ proc = "running"
    /\ upc = "ip_lock"
    /\ locks[InsertLocks[uk + 1]] = Free
    /\ locks' = [ locks EXCEPT ![InsertLocks[uk + 1]] = UI ]
    /\ uk' = uk + 1
    /\ upc' = IF uk + 1 = Len(InsertLocks) THEN "ip_build" ELSE "ip_lock"
    /\ UNCHANGED << worldVars, driverVars, ret, win, last, args, collider,
                    snap, drawn, proc, histVars >>

\* state.rs 119..128: the body and the collider are built, the collider is
\* tagged with the clock reading, and the body is inserted.  A failed clock
\* read panics: the main thread unwinds, which drops both guards.
InsertBuild ==
    /\ proc = "running"
    /\ upc = "ip_build"
    /\ \E nanos \in Tags \cup { ClockErr } :
          IF nanos = ClockErr
          THEN /\ upc' = "m_panic"
               /\ locks' = DropGuards(locks, UI)
               /\ collider' = NoCollider
               /\ bodies' = bodies
          ELSE /\ upc' = "ip_attach"
               /\ locks' = locks
               /\ collider' = [ Cuboid(ParticleHalf, ParticleHalf, 0, 0)
                                  EXCEPT !.user_data = nanos ]
               /\ bodies' = Append(bodies, DynamicBody(args[1], args[2]))
    /\ UNCHANGED << colliders, boxes, driverVars, ret, uk, win, last, args,
                    snap, drawn, proc, histVars >>

\* a faulty variant of InsertWithParent: a collider equal in tag and place to
\* one already in the set is not inserted again
InsertWithParentDedup(cs, c, bh, bs) ==
    IF \E h \in DOMAIN cs : /\ cs[h].user_data = c.user_data
                            /\ cs[h].tx = bs[bh].tx
                            /\ cs[h].ty = bs[bh].ty
    THEN cs
    ELSE Append(cs, [ c EXCEPT !.parent = bh, !.tx = bs[bh].tx, !.ty = bs[bh].ty ])

\* a faulty variant of InsertWithParent: collider_set.insert, with no parent
InsertWithoutParent(cs, c, bh, bs) == Append(cs, c)

\* collider_set.insert_with_parent (state.rs 129): the collider gets a fresh
\* handle, its parent is the body, and it sits at the body's position
InsertWithParent(cs, c, bh, bs) ==
    Append(cs, [ c EXCEPT !.parent = bh, !.tx = bs[bh].tx, !.ty = bs[bh].ty ])

\* ... and the body records the collider attached to it
AttachCollider(bs, bh, ch) == [ bs EXCEPT ![bh].colliders = @ \cup { ch } ]

\* state.rs 129, 130: the collider is attached to the body inserted last, and
\* both guards go out of scope as insert_particle() returns
InsertAttach ==
    /\ proc = "running"
    /\ upc = "ip_attach"
    /\ colliders' = InsertWithParent(colliders, collider, Len(bodies), bodies)
    /\ bodies' = AttachCollider(bodies, Len(bodies), Len(colliders'))
    /\ locks' = DropGuards(locks, UI)
    /\ collider' = NoCollider
    /\ ninserts' = ninserts + 1
    /\ upc' = ret
    /\ ret' = "none"
    /\ uk' = 0
    /\ args' = << >>
    /\ UNCHANGED << boxes, driverVars, win, last, snap, drawn, proc, prevResize,
                    sinceStep, spawn >>

(***************************************************************************)
(* State::resize (state.rs 132..150).                                      *)
(***************************************************************************)
\* state.rs 133: collider_set.lock()
ResizeLock ==
    /\ proc = "running"
    /\ upc = "rs_lock"
    /\ locks["collider_set"] = Free
    /\ locks' = [ locks EXCEPT !["collider_set"] = UI ]
    /\ upc' = "rs_get"
    /\ uk' = 1
    /\ UNCHANGED << worldVars, driverVars, ret, win, last, args, collider,
                    snap, drawn, proc, histVars >>

\* state.rs 135, 139, 143, 147: the wall's handle is read under its own lock
\* and looked up; unwrap() panics when the set has no such collider
ResizeGet ==
    /\ proc = "running"
    /\ upc = "rs_get"
    /\ locks[ResizeOrder[uk]] = Free
    /\ IF boxes[ResizeOrder[uk]] \in DOMAIN colliders
       THEN /\ locks' = [ locks EXCEPT ![ResizeOrder[uk]] = UI ]
            /\ upc' = "rs_set"
       ELSE /\ locks' = DropGuards(locks, UI)
            /\ upc' = "m_panic"
    /\ UNCHANGED << worldVars, driverVars, ret, uk, win, last, args, collider,
                    snap, drawn, proc, histVars >>

\* a variant of WallTranslation: the offset equal to the half thickness
WallTranslationFlush(w, x, y, width, height) ==
    CASE w = "box_top"    -> << 0 + x, -WallHalfThick + y >>
      [] w = "box_left"   -> << -WallHalfThick + x, 0 + y >>
      [] w = "box_bottom" -> << 0 + x, height + WallHalfThick + y >>
      [] w = "box_right"  -> << width + WallHalfThick + x, 0 + y >>

\* state.rs 136, 140, 144, 148: the vector each wall is moved to
WallTranslation(w, x, y, width, height) ==
    CASE w = "box_top"    -> << 0 + x, -WallOffset + y >>
      [] w = "box_left"   -> << -WallOffset + x, 0 + y >>
      [] w = "box_bottom" -> << 0 + x, height + WallOffset + y >>
      [] w = "box_right"  -> << width + WallOffset + x, 0 + y >>

\* a faulty variant of set_translation: the vector added to the translation
translate_by(c, v) == [ c EXCEPT !.tx = @ + v[1], !.ty = @ + v[2] ]

\* Collider::set_translation (state.rs 136, 140, 144, 148)
set_translation(c, v) == [ c EXCEPT !.tx = v[1], !.ty = v[2] ]

\* state.rs 135..149: the handle's guard is a temporary, dropped at the end
\* of the let statement; then the wall is moved
ResizeSet ==
    /\ proc = "running"
    /\ upc = "rs_set"
    /\ locks' = [ locks EXCEPT ![ResizeOrder[uk]] = Free ]
    /\ colliders' =
          [ colliders EXCEPT ![boxes[ResizeOrder[uk]]] =
              set_translation(@, WallTranslation(ResizeOrder[uk],
                                   args[1], args[2], args[3], args[4])) ]
    /\ upc' = IF uk = Len(ResizeOrder) THEN "rs_ret" ELSE "rs_get"
    /\ uk' = IF uk = Len(ResizeOrder) THEN 0 ELSE uk + 1
    /\ UNCHANGED << bodies, boxes, driverVars, ret, win, last, args, collider,
                    snap, drawn, proc, histVars >>

\* state.rs 150: the collider set's guard goes out of scope
ResizeReturn ==
    /\ proc = "running"
    /\ upc = "rs_ret"
    /\ locks' = DropGuards(locks, UI)
    /\ prevResize' = [ args |-> args, walls |-> Walls ]
    /\ upc' = ret
    /\ ret' = "none"
    /\ args' = << >>
    /\ UNCHANGED << worldVars, driverVars, uk, win, last, collider, snap,
                    drawn, proc, ninserts, sinceStep, spawn >>


(***************************************************************************)
(* State::for_each_cube (state.rs 152..184) and the draw closure           *)
(* (main.rs 58..71).                                                       *)
(***************************************************************************)
\* bitwise exclusive or of two naturals (u128 ^ u128; neither side overflows)
RECURSIVE Xor(_, _)
Xor(a, b) ==
    IF a = 0 THEN b
    ELSE IF b = 0 THEN a
    ELSE (((a % 2) + (b % 2)) % 2) + 2 * Xor(a \div 2, b \div 2)

\* a faulty variant of AsU8: `as u16`
AsU16(n) == n % 65536

\* `as u8`: the low eight bits
AsU8(n) == n % 256

\* a variant of DrawColor: each channel taken from the byte its mask covers
DrawColorShifted(rand) ==
    << AsU8(Xor(rand, 16711680) \div 65536), AsU8(Xor(rand, 65280) \div 256),
       AsU8(Xor(rand, 255)), Alpha >>

\* main.rs 64..69: Color::new((rand ^ 0xFF0000) as u8, (rand ^ 0x00FF00) as u8,
\* (rand ^ 0x0000FF) as u8, 255)
DrawColor(rand) ==
    << AsU8(Xor(rand, 16711680)), AsU8(Xor(rand, 65280)), AsU8(Xor(rand, 255)),
       Alpha >>

\* `as i32` of a whole-valued f32: the value, saturated to the range of i32
AsI32(v) ==
    IF v > 2147483647 THEN 2147483647
    ELSE IF v < -2147483647 - 1 THEN -2147483647 - 1
    ELSE v

\* a faulty variant of DrawRectangle: the window offset added, as it is when
\* a particle is inserted
DrawRectangleOffsetAdded(x, y, width, height, rand, lst) ==
    [ x |-> AsI32(x) + AsI32(lst[1]), y |-> AsI32(y) + AsI32(lst[2]),
      w |-> AsI32(width), h |-> AsI32(height),
      color |-> DrawColor(rand), rand |-> rand ]

\* main.rs 59..70: d.draw_rectangle(x as i32 - last_x as i32,
\* y as i32 - last_y as i32, width as i32, height as i32, color)
DrawRectangle(x, y, width, height, rand, lst) ==
    [ x |-> AsI32(x) - AsI32(lst[1]), y |-> AsI32(y) - AsI32(lst[2]),
      w |-> AsI32(width), h |-> AsI32(height),
      color |-> DrawColor(rand), rand |-> rand ]

\* a faulty variant of ForEachLock: the set read without waiting for its lock
ForEachNoLock ==
    /\ proc = "running"
    /\ upc = "fe_lock"
    /\ locks' = locks
    /\ upc' = "fe_clone"
    /\ UNCHANGED << worldVars, driverVars, ret, uk, win, last, args, collider,
                    snap, drawn, proc, histVars >>

\* state.rs 153: collider_set.lock()
ForEachLock ==
    /\ proc = "running"
    /\ upc = "fe_lock"
    /\ locks["collider_set"] = Free
    /\ locks' = [ locks EXCEPT !["collider_set"] = UI ]
    /\ upc' = "fe_clone"
    /\ UNCHANGED << worldVars, driverVars, ret, uk, win, last, args, collider,
                    snap, drawn, proc, histVars >>

\* a faulty variant of CloneGuardDrop: the guard bound to a local and kept
CloneGuardKept(l) == l

\* state.rs 153: the guard is a temporary of the let statement and is dropped
\* at its end, once clone() has returned
CloneGuardDrop(l) == [ l EXCEPT !["collider_set"] = Free ]

\* state.rs 153: .clone()
ForEachClone ==
    /\ proc = "running"
    /\ upc = "fe_clone"
    /\ snap' = colliders
    /\ locks' = CloneGuardDrop(locks)
    /\ upc' = "fe_iter"
    /\ uk' = 1
    /\ UNCHANGED << worldVars, driverVars, ret, win, last, args, collider,
                    drawn, proc, histVars >>

\* state.rs 155..183: one turn of the loop over the clone, in handle order.
\* A cuboid is handed to the visitor, which draws it; any other shape is
\* todo!(), a panic of the main thread.  After the last turn for_each_cube
\* returns.
ForEachVisit ==
    /\ proc = "running"
    /\ upc = "fe_iter"
    /\ IF uk > Len(snap)
       THEN /\ upc' = ret
            /\ ret' = "none"
            /\ uk' = 0
            /\ snap' = << >>
            /\ drawn' = drawn
       ELSE /\ upc' = IF snap[uk].shape = "Cuboid" THEN "fe_iter" ELSE "m_panic"
            /\ ret' = ret
            /\ uk' = uk + 1
            /\ snap' = snap
            /\ drawn' = IF snap[uk].shape = "Cuboid"
                        THEN Append(drawn,
                               DrawRectangle(snap[uk].tx, snap[uk].ty,
                                             snap[uk].hx * 2, snap[uk].hy * 2,
                                             snap[uk].user_data, last))
                        ELSE drawn
    /\ UNCHANGED << worldVars, locks, driverVars, win, last, args, collider,
                    proc, histVars >>

WorldNext ==
    \/ InsertLock
    \/ InsertBuild
    \/ InsertAttach
    \/ ResizeLock
    \/ ResizeGet
    \/ ResizeSet
    \/ ResizeReturn
    \/ ForEachLock
    \/ ForEachClone
    \/ ForEachVisit

(***************************************************************************)
(* The Presentation Loop (main.rs 39..72).                                 *)
(***************************************************************************)
\* main.rs 39..43: the window is closed and the loop ends; or the window
\* rectangle is read and, when it differs from the cached one, resize is called
MainFrame ==
    /\ proc = "running"
    /\ upc = "m_loop"
    /\ \E close \in BOOLEAN, rect \in WindowRects :
          IF close
          THEN /\ upc' = "m_exit"
               /\ UNCHANGED << win, args, ret >>
          ELSE /\ win' = rect
               /\ IF rect # last
                  THEN /\ upc' = "rs_lock"
                       /\ args' = rect
                       /\ ret' = "m_cache"
                  ELSE /\ upc' = "m_mouse"
                       /\ UNCHANGED << args, ret >>
    /\ UNCHANGED << worldVars, locks, driverVars, uk, last, collider, snap,
                    drawn, proc, histVars >>

\* a faulty variant of MainCache: the position cached, the size not
MainCachePositionOnly ==
    /\ proc = "running"
    /\ upc = "m_cache"
    /\ last' = << win[1], win[2], last[3], last[4] >>
    /\ upc' = "m_mouse"
    /\ UNCHANGED << worldVars, locks, driverVars, ret, uk, win, args, collider,
                    snap, drawn, proc, histVars >>

\* main.rs 44..47: the rectangle is cached
MainCache ==
    /\ proc = "running"
    /\ upc = "m_cache"
    /\ last' = win
    /\ upc' = "m_mouse"
    /\ UNCHANGED << worldVars, locks, driverVars, ret, uk, win, args, collider,
                    snap, drawn, proc, histVars >>

\* main.rs 49..53: while the button is down, a particle is inserted at the
\* pointer position plus the cached window position (the button is down in
\* no frame once `most` particles exist)
MainMouseUpTo(most) ==
    /\ proc = "running"
    /\ upc = "m_mouse"
    /\ \E down \in BOOLEAN, pos \in MousePositions :
          IF down /\ Len(bodies) < most
          THEN /\ upc' = "ip_lock"
               /\ args' = << pos[1] + last[1], pos[2] + last[2] >>
               /\ ret' = "m_draw"
               /\ spawn' = Append(spawn, [ p |-> pos,
                                           off |-> << last[1], last[2] >> ])
          ELSE /\ upc' = "m_draw"
               /\ UNCHANGED << args, ret, spawn >>
    /\ uk' = 0
    /\ UNCHANGED << worldVars, locks, driverVars, win, last, collider, snap,
                    drawn, proc, ninserts, prevResize, sinceStep >>

MainMouse == MainMouseUpTo(MaxParticles)

\* main.rs 55..58: begin_drawing, clear_background, and the call of
\* for_each_cube with the draw closure
MainDraw ==
    /\ proc = "running"
    /\ upc = "m_draw"
    /\ drawn' = << >>
    /\ upc' = "fe_lock"
    /\ ret' = "m_loop"
    /\ UNCHANGED << worldVars, locks, driverVars, uk, win, last, args,
                    collider, snap, proc, histVars >>

\* main.rs 9, 73: main returns (or unwinds) and the tokio Runtime built by
\* #[tokio::main] is dropped.  Dropping a Runtime blocks until every worker
\* thread has stopped, and a worker stops only when its task yields: the
\* driver's loop (main.rs 18..23) has no .await, so the drop returns only if
\* the driver task has already ended, or has not been polled yet (a task
\* not yet running is dropped by the shutdown).  Then the process exits.
RuntimeDrop ==
    /\ proc = "running"
    /\ upc \in { "m_exit", "m_panic" }
    /\ dpc \in { "d_init", "d_dead" }
    /\ proc' = "exited"
    /\ UNCHANGED << worldVars, locks, driverVars, uiVars, histVars >>

MainNext ==
    \/ MainFrame
    \/ MainCache
    \/ MainMouse
    \/ MainDraw
    \/ RuntimeDrop

Next ==
    \/ DriverNext
    \/ TickUpTo(MaxLoopElapsed)
    \/ WorldNext
    \/ MainNext

Spec == Init /\ [][Next]_vars

(***************************************************************************)
(* The World driven through its public interface alone: the main thread    *)
(* calls resize, insert_particle and for_each_cube in any order and with   *)
(* any arguments, while the driver steps.                                  *)
(***************************************************************************)
\* world coordinates a caller inserts at
ClientPoints == { <<20, 237>> }

ClientCall ==
    /\ proc = "running"
    /\ upc = "c_idle"
    /\ ret' = "c_idle"
    /\ uk' = 0
    /\ \/ \E rect \in WindowRects :
            /\ upc' = "rs_lock"
            /\ args' = rect
            /\ UNCHANGED << drawn, spawn >>
       \/ \E pos \in ClientPoints :
            /\ Len(bodies) < MaxParticles
            /\ upc' = "ip_lock"
            /\ args' = pos
            /\ spawn' = Append(spawn, [ p |-> pos, off |-> << 0, 0 >> ])
            /\ drawn' = drawn
       \/ /\ upc' = "fe_lock"
          /\ args' = << >>
          /\ drawn' = << >>
          /\ spawn' = spawn
    /\ UNCHANGED << worldVars, locks, driverVars, win, last, collider, snap,
                    proc, ninserts, prevResize, sinceStep >>

ApiInit ==
    /\ InitWorld
    /\ InitDriver
    /\ InitLocals
    /\ upc = "c_idle"

ApiNext ==
    \/ DriverNext
    \/ Tick
    \/ WorldNext
    \/ ClientCall

ApiSpec == ApiInit /\ [][ApiNext]_vars

(***************************************************************************)
(* Scheduling.  A thread that can run is eventually run, and parking_lot's *)
(* Mutex is eventually fair: a thread waiting in lock() is not passed over *)
(* forever by a thread that keeps re-acquiring the mutex.  Hence strong    *)
(* fairness of the driver task and of the World operations the main thread *)
(* has called.  Nothing forces the window to stay open or the clock to     *)
(* advance.                                                                *)
(***************************************************************************)
FairNext ==
    \/ DriverNext
    \/ TickUpTo(MaxLoopElapsed)
    \/ WorldNext
    \/ MainFrame
    \/ MainCache
    \/ MainMouseUpTo(MaxFairParticles)
    \/ MainDraw
    \/ RuntimeDrop

FairSpec ==
    /\ Init
    /\ [][FairNext]_vars
    /\ SF_vars(DriverNext)
    /\ SF_vars(WorldNext)

\* Runs in which the driver's timer is followed up to MaxElapsed, with no
\* scheduling assumed.
TimerNext ==
    \/ DriverNext
    \/ Tick
    \/ WorldNext
    \/ MainFrame
    \/ MainCache
    \/ MainMouseUpTo(MaxFairParticles)
    \/ MainDraw
    \/ RuntimeDrop

TimerSpec == Init /\ [][TimerNext]_vars

(***************************************************************************)
(* Properties.                                                             *)
(***************************************************************************)
\* the colliders State::new creates
WallCount == Len(NewColliders)

\* for_each_cube has made its last visit and is about to return
ForEachDone == upc = "fe_iter" /\ uk > Len(snap)

\* C1: when for_each_cube has finished, the visitor has been invoked exactly
\* N + 4 times, N the number of insert_particle calls that have returned:
\* once for each collider of the set, in handle order.
C1_VisitorCount ==
    ForEachDone =>
        /\ Len(drawn) = ninserts + 4
        /\ Len(drawn) = Len(colliders)
        /\ \A i \in DOMAIN drawn : drawn[i].rand = colliders[i].user_data

\* C1 witness: two particles inserted at the same point with the same tag,
\* neither moved yet, are both visited: six visits, the last two identical.
C1_Witness ==
    /\ ForEachDone
    /\ ninserts = 2
    /\ Len(drawn) = 6
    /\ snap[5].user_data = snap[6].user_data
    /\ snap[5].tx = snap[6].tx
    /\ snap[5].ty = snap[6].ty
    /\ drawn[5] = drawn[6]

\* one order in which every operation locks: step()'s, then the wall handles
GlobalLockOrder == StepLocks \o ResizeOrder

LockRank(n) == CHOOSE i \in DOMAIN GlobalLockOrder : GlobalLockOrder[i] = n

NoLock == "none"

\* the mutex a thread is about to lock (and blocks on while it is held)
Wanted(who) ==
    IF who = Driver
    THEN IF dpc = "s_lock" THEN StepLocks[dk + 1] ELSE NoLock
    ELSE CASE upc = "ip_lock" -> InsertLocks[uk + 1]
           [] upc = "rs_lock" -> "collider_set"
           [] upc = "rs_get"  -> ResizeOrder[uk]
           [] upc = "fe_lock" -> "collider_set"
           [] OTHER           -> NoLock

\* C2: every lock() is of a mutex later in the one global order than every
\* mutex the thread holds, and the two threads never wait for each other.
C2_LockOrder ==
    /\ \A who \in { Driver, UI } :
          Wanted(who) # NoLock =>
             \A h \in Held(locks, who) : LockRank(h) < LockRank(Wanted(who))
    /\ ~ ( /\ Wanted(Driver) # NoLock
           /\ Wanted(UI) # NoLock
           /\ locks[Wanted(Driver)] = UI
           /\ locks[Wanted(UI)] = Driver )

\* C2 witness: the threads contend: the driver, holding its first four
\* locks, waits for the body set, which insert_particle holds while it waits
\* to lock the collider set.
C2_Witness ==
    /\ Wanted(Driver) = "rigid_body_set"
    /\ locks["rigid_body_set"] = UI
    /\ Wanted(UI) = "collider_set"
    /\ Cardinality(Held(locks, Driver)) = 4

\* the face of a wall that looks into the arena
InnerFace(cs, bx, w) ==
    CASE w = "box_left"   -> cs[bx[w]].tx + cs[bx[w]].hx
      [] w = "box_right"  -> cs[bx[w]].tx - cs[bx[w]].hx
      [] w = "box_top"    -> cs[bx[w]].ty + cs[bx[w]].hy
      [] w = "box_bottom" -> cs[bx[w]].ty - cs[bx[w]].hy

\* the inner faces enclose the rectangle a, shrunk by d on every side
FacesAt(a, d) ==
    /\ InnerFace(colliders, boxes, "box_left") = a[1] + d
    /\ InnerFace(colliders, boxes, "box_right") = a[1] + a[3] - d
    /\ InnerFace(colliders, boxes, "box_top") = a[2] + d
    /\ InnerFace(colliders, boxes, "box_bottom") = a[2] + a[4] - d

\* the centre of every wall lies outside the rectangle a
BulkOutside(a) ==
    /\ colliders[boxes.box_left].tx < a[1]
    /\ colliders[boxes.box_right].tx > a[1] + a[3]
    /\ colliders[boxes.box_top].ty < a[2]
    /\ colliders[boxes.box_bottom].ty > a[2] + a[4]

InResize == upc \in { "rs_get", "rs_set", "rs_ret" }

\* C3 as claimed: after resize(x, y, width, height) the inner faces lie at
\* x, x + width, y and y + height.
C3_InnerFacesOnRect ==
    /\ upc = "rs_ret" => FacesAt(args, 0)
    /\ (~InResize /\ prevResize # NoResize) => FacesAt(prevResize.args, 0)

\* C3 as amended: after resize(x, y, width, height), when it is about to
\* return and from then until the next resize, the inner faces lie one unit
\* inside the rectangle, at x + 1, x + width - 1, y + 1 and y + height - 1,
\* and the centre of every wall lies outside the rectangle.
C3_InnerFacesInset ==
    /\ upc = "rs_ret" => FacesAt(args, 1) /\ BulkOutside(args)
    /\ (~InResize /\ prevResize # NoResize) =>
          FacesAt(prevResize.args, 1) /\ BulkOutside(prevResize.args)

\* C3 witness: resize(0, 0, 320, 240) on a fresh World is about to return
\* with the inner faces at 1, 319, 1 and 239.
C3_Witness ==
    /\ upc = "rs_ret"
    /\ args = << 0, 0, 320, 240 >>
    /\ prevResize = NoResize
    /\ bodies = << >>
    /\ InnerFace(colliders, boxes, "box_left") = 1
    /\ InnerFace(colliders, boxes, "box_right") = 319
    /\ InnerFace(colliders, boxes, "box_top") = 1
    /\ InnerFace(colliders, boxes, "box_bottom") = 239

\* C4: when resize is about to return and the previous resize call had the
\* same arguments, the four walls are where that call left them.
C4_ResizeIdempotent ==
    (upc = "rs_ret" /\ prevResize.args = args) => Walls = prevResize.walls

\* C4 witness: a second resize with the arguments of the one before is about
\* to return, after a particle has been inserted and has fallen.
C4_Witness ==
    /\ upc = "rs_ret"
    /\ prevResize.args = args
    /\ ninserts >= 1
    /\ \E b \in DOMAIN bodies : bodies[b].ty > 237

\* the colliders attached to body b
CollidersOf(cs, b) == { c \in DOMAIN cs : cs[c].parent = b }

\* every body owns exactly one collider and knows it; every collider but
\* the walls has a body
Attached(cs, bs) ==
    /\ \A b \in DOMAIN bs :
          /\ Cardinality(CollidersOf(cs, b)) = 1
          /\ bs[b].colliders = CollidersOf(cs, b)
    /\ \A c \in DOMAIN cs : c > WallCount => cs[c].parent \in DOMAIN bs

\* C5: the four wall handles are those State::new stored and refer to the
\* colliders it created, unchanged but for their translation; every body
\* owns exactly one attached collider, except the body insert_particle has
\* inserted and not yet attached to, while insert_particle holds the locks
\* of both sets and nothing else is attached wrongly; and every clone taken
\* by for_each_cube has one collider per body.
C5_WorldWellFormed ==
    /\ boxes = NewBoxes
    /\ \A w \in DOMAIN boxes :
          /\ boxes[w] \in DOMAIN colliders
          /\ [ colliders[boxes[w]] EXCEPT !.tx = 0, !.ty = 0 ]
               = [ NewColliders[boxes[w]] EXCEPT !.tx = 0, !.ty = 0 ]
    /\ upc # "ip_attach" => Attached(colliders, bodies)
    /\ upc = "ip_attach" =>
          /\ locks["rigid_body_set"] = UI
          /\ locks["collider_set"] = UI
          /\ Attached(colliders, SubSeq(bodies, 1, Len(bodies) - 1))
          /\ bodies[Len(bodies)].colliders = {}
    /\ upc = "fe_iter" =>
          /\ Len(snap) = WallCount + Len(bodies)
          /\ \A c \in DOMAIN snap :
                c > WallCount => CollidersOf(snap, snap[c].parent) = { c }

\* C5 witness: a second body is inserted and not yet attached to, while the
\* driver waits in step() for the lock of the body set.
C5_Witness ==
    /\ upc = "ip_attach"
    /\ Len(bodies) = 2
    /\ Len(colliders) = WallCount + 1
    /\ Wanted(Driver) = "rigid_body_set"

\* C6: while the visitor runs, the main thread does not hold the lock of the
\* collider set.
C6_LockFreeWhileVisiting ==
    upc = "fe_iter" => locks["collider_set"] # UI

\* C6 witness: between two visits of a clone that holds a particle, step()
\* holds the lock of the collider set.
C6_Witness ==
    /\ upc = "fe_iter"
    /\ uk \in 2 .. Len(snap)
    /\ Len(snap) > WallCount
    /\ locks["collider_set"] = Driver

InOperation ==
    upc \in { "ip_lock", "ip_build", "ip_attach", "rs_lock", "rs_get",
              "rs_set", "rs_ret", "fe_lock", "fe_clone", "fe_iter" }

InStep == dpc \in { "s_lock", "s_pipeline", "s_sync" }

\* C7: under fair scheduling every World operation the main thread has
\* called eventually ends, and every step() the driver has called returns.
C7_NoOperationBlocksForever ==
    /\ InOperation ~> ~InOperation
    /\ InStep ~> ~InStep

\* C7 witness: each thread waits for a mutex the other holds at some time:
\* here for_each_cube waits for the collider set, which step() holds.
C7_Witness ==
    /\ upc = "fe_lock"
    /\ locks["collider_set"] = Driver
    /\ Len(bodies) = MaxFairParticles

\* C8 as claimed: once the window is closed and the loop has ended, the
\* driver does not stand in the way of the process exiting.
C8_CloseExitsProcess ==
    (upc = "m_exit" /\ proc = "running") => ENABLED RuntimeDrop

\* C9 as claimed: once the driver or the main thread has failed, neither
\* takes another step (the process can only exit).
C9_FailureIsFatal ==
    [][ (dpc = "d_dead" \/ upc = "m_panic") => UNCHANGED << dpc, upc >> ]_vars

\* the colour the claim gives for a tag
ColourOfTag(t) ==
    << Xor(t, 16711680) % 256, Xor(t, 65280) % 256, Xor(t, 255) % 256, 255 >>

\* C10: while for_each_cube visits, up to and including its last visit,
\* every rectangle drawn in the frame has the colour (tag XOR 0xFF0000, tag
\* XOR 0x00FF00, tag XOR 0x0000FF), each cut to eight bits, and alpha 255,
\* so two rectangles drawn for equal tags have equal colours.
C10_ColourFromTag ==
    upc = "fe_iter" =>
       /\ \A i \in DOMAIN drawn : drawn[i].color = ColourOfTag(drawn[i].rand)
       /\ \A i, j \in DOMAIN drawn :
             drawn[i].rand = drawn[j].rand => drawn[i].color = drawn[j].color

\* C10 witness: with the window away from the screen's origin, two
\* particles with equal tags are drawn at different places, the later
\* inserted above the earlier, in the same colour.
C10_Witness ==
    /\ upc = "fe_iter"
    /\ last[1] # 0
    /\ \E i, j \in DOMAIN drawn :
          /\ i < j
          /\ drawn[i].rand \in Tags
          /\ drawn[i].rand = drawn[j].rand
          /\ drawn[i].y > drawn[j].y
          /\ drawn[i].color = drawn[j].color

\* step() has locked everything and is in physics_pipeline.step, or about
\* to call it
InTick == dpc \in { "s_pipeline", "s_sync" }

\* the main thread is in insert_particle or resize, waiting for one of the
\* two sets
WaitsToMutate ==
    /\ upc \in { "ip_lock", "rs_lock" }
    /\ Wanted(UI) \in { "rigid_body_set", "collider_set" }

\* C11 as claimed: an insert or resize is interleaved with the integration
\* tick: called while the tick runs, it is not held back until the tick has
\* finished, the set it is about to lock is free for it.
C11_MutationInsideTick ==
    (InTick /\ WaitsToMutate) => locks[Wanted(UI)] = Free

\* C11 as amended: an insert or resize is interleaved with a step() call
\* only while step() is still locking; from the moment step() holds its
\* locks until it returns, the bodies and the colliders are changed by the
\* tick alone, never by a step of the main thread.
C11_TickExcludesMutation ==
    [][ (InTick /\ << bodies, colliders >>' # << bodies, colliders >>)
           => UNCHANGED << upc, uk, collider >> ]_vars

\* C11 witness: step() has been called and holds its first four locks, and
\* insert_particle, called after it, has changed the body set and is about
\* to change the collider set; step() waits for the body set.
C11_Witness ==
    /\ dpc = "s_lock"
    /\ dk = 4
    /\ upc = "ip_attach"
    /\ Len(bodies) = Len(colliders) - WallCount + 1
    /\ locks["rigid_body_set"] = UI

\* the driver calls step(): the step of DriverPoll that finds the timer expired
StepInvoked == dpc = "d_poll" /\ dpc' = "s_lock"

\* the driver resets its timer: step() has returned
TimerReset == dpc = "d_reset" /\ dpc' = "d_poll"

\* C12: step() is called only when the timer reads at least one interval,
\* and then at least one interval after the call before; the timer is set
\* back only by the reset that follows the return of step(), to zero, so
\* one expiry gives one step.
C12_StepsAnIntervalApart ==
    [][ /\ StepInvoked => (elapsed >= Interval /\ sinceStep >= Interval)
        /\ TimerReset => elapsed' = 0
        /\ elapsed' < elapsed => TimerReset ]_vars

\* C12 witness: a step() has moved a particle, and the next step() has just
\* been called, as soon as the timer read one interval.
C12_Witness ==
    /\ dpc = "s_lock"
    /\ dk = 0
    /\ sinceStep = 0
    /\ elapsed = Interval
    /\ \E b \in DOMAIN bodies : bodies[b].ty > spawn[b].p[2] + spawn[b].off[2]

\* the driver has fallen behind: step() has returned more than one
\* interval after the timer was last set
FallenBehind == dpc = "d_reset" /\ elapsed > Interval

\* C13 as claimed: when the driver has fallen behind, the next step follows
\* with no wait: as its timer is reset, it still reads an expired interval.
C13_BurstAfterFallingBehind ==
    [][ (FallenBehind /\ TimerReset) => elapsed' >= Interval ]_vars

\* C13 as amended: however far the driver has fallen behind, the reset sets
\* the timer to zero: the time owed is dropped, and the next step() is
\* called only after another whole interval, also one that follows a late
\* step.
C13_LateStepsAreDropped ==
    [][ /\ (FallenBehind /\ TimerReset) => elapsed' = 0
        /\ (StepInvoked /\ sinceStep < MaxElapsed)
              => (elapsed >= Interval /\ sinceStep >= elapsed) ]_vars

\* C13 witness: step() was called late and was held up in lock(): it has
\* returned with the timer at the cap, two intervals or more, after it has
\* moved a particle.
C13_Witness ==
    /\ FallenBehind
    /\ elapsed = MaxElapsed
    /\ sinceStep >= Interval
    /\ \E b \in DOMAIN bodies : bodies[b].ty > spawn[b].p[2] + spawn[b].off[2]

\* where resize puts the four walls for the window rectangle a
WallsFor(a) ==
    [ w \in DOMAIN boxes |-> WallTranslation(w, a[1], a[2], a[3], a[4]) ]

\* the frame is at its resize: the call is in progress or has just returned
AtFrameResize == upc \in { "rs_lock", "rs_get", "rs_set", "rs_ret", "m_cache" }

\* the frame is at its insert or draw step
AtInsertOrDraw ==
    upc \in { "m_mouse", "ip_lock", "ip_build", "ip_attach", "m_draw",
              "fe_lock", "fe_clone", "fe_iter" }

\* C14: a frame calls resize only when the rectangle it has read differs
\* from the cached one, and with that rectangle; and at the insert and draw
\* steps of a frame the cached rectangle is the one read in the frame and
\* the walls are where resize puts them for it.
C14_WallsFollowWindow ==
    /\ AtFrameResize => win # last
    /\ (AtFrameResize /\ upc # "m_cache") => (args = win /\ ret = "m_cache")
    /\ upc = "m_cache" => (prevResize.args = win /\ Walls = WallsFor(win))
    /\ AtInsertOrDraw => (last = win /\ Walls = WallsFor(win))

\* C14 witness: a particle was inserted with the window at the origin; in a
\* later frame the window has been moved and resized, resize has been
\* called for it, and the frame is at its draw step.
C14_Witness ==
    /\ upc = "m_draw"
    /\ win = << 3, 2, 64, 238 >>
    /\ prevResize.args = win
    /\ ninserts >= 1
    /\ spawn[1].off = << 0, 0 >>

\* collider c of a clone is where its body was inserted: no step() has
\* moved it
Unmoved(c) ==
    /\ c.tx = spawn[c.parent].p[1] + spawn[c.parent].off[1]
    /\ c.ty = spawn[c.parent].p[2] + spawn[c.parent].off[2]

\* C15: while the window offset is the one a particle was inserted under, a
\* particle inserted at the pointer position p and not moved by a step()
\* since is drawn at the window position p.
C15_DrawnWherePointed ==
    upc = "fe_iter" =>
       \A i \in DOMAIN drawn :
          ( /\ snap[i].parent \in DOMAIN spawn
            /\ spawn[snap[i].parent].off = << last[1], last[2] >>
            /\ Unmoved(snap[i]) )
          => ( /\ drawn[i].x = spawn[snap[i].parent].p[1]
               /\ drawn[i].y = spawn[snap[i].parent].p[2] )

\* C15 witness: with the window away from the screen's origin, a particle
\* inserted in this frame has been drawn where the pointer was; the driver
\* is inside a step() that has not moved it yet.
C15_Witness ==
    /\ upc = "fe_iter"
    /\ last[1] # 0
    /\ last[2] # 0
    /\ InStep
    /\ \E i \in DOMAIN drawn :
          /\ snap[i].parent \in DOMAIN spawn
          /\ spawn[snap[i].parent].off = << last[1], last[2] >>
          /\ Unmoved(snap[i])
          /\ << drawn[i].x, drawn[i].y >> \in MousePositions

\* every collider with a body sits where its body is
Synced(cs, bs) ==
    \A c \in DOMAIN cs :
       cs[c].parent \in DOMAIN bs =>
          (cs[c].tx = bs[cs[c].parent].tx /\ cs[c].ty = bs[cs[c].parent].ty)

\* the four walls of the table cs are where State::new or one whole
\* resize puts them
WallsWhole(cs) ==
    LET ws == [ w \in DOMAIN boxes |-> << cs[boxes[w]].tx, cs[boxes[w]].ty >> ]
    IN  \/ ws = [ w \in DOMAIN boxes |->
                    << NewColliders[NewBoxes[w]].tx, NewColliders[NewBoxes[w]].ty >> ]
        \/ \E a \in WindowRects : ws = WallsFor(a)

\* C16: the clone is taken with the lock of the collider set held and with
\* no step(), insert_particle or resize partway: the driver is not inside a
\* tick, every collider sits where its body is, every body has its
\* collider, and the walls are those of one whole resize; and during the
\* visits the clone stays that table, and what has been drawn is drawn
\* from it.
C16_SnapshotAtomic ==
    /\ upc = "fe_clone" =>
          /\ locks["collider_set"] = UI
          /\ dpc # "s_sync"
          /\ Synced(colliders, bodies)
          /\ Attached(colliders, bodies)
          /\ WallsWhole(colliders)
    /\ upc = "fe_iter" =>
          /\ WallsWhole(snap)
          /\ Len(snap) = WallCount + Len(bodies)
          /\ \A c \in DOMAIN snap :
                c > WallCount => snap[c].tx = bodies[snap[c].parent].tx
          /\ \A i \in DOMAIN drawn :
                drawn[i] = DrawRectangle(snap[i].tx, snap[i].ty, snap[i].hx * 2,
                                         snap[i].hy * 2, snap[i].user_data, last)

\* C16 witness: while the visits run, a step() has moved a particle and
\* returned and the next tick is under way: the particle has been drawn
\* where the clone has it, above where the World now has it.
C16_Witness ==
    /\ upc = "fe_iter"
    /\ dpc = "s_sync"
    /\ \E i \in DOMAIN drawn :
          /\ i > WallCount
          /\ colliders[i].ty > snap[i].ty
          /\ drawn[i].y = snap[i].ty - last[2]

\* c is a box of one of the sizes the program builds: a wall or a particle
IsBox(c) ==
    /\ c.shape = "Cuboid"
    /\ << c.hx, c.hy >> \in { << WallHalfLenX, WallHalfThick >>,
                              << WallHalfThick, WallHalfLenY >>,
                              << ParticleHalf, ParticleHalf >> }

\* C17: every collider of the World, the one insert_particle has built and
\* every collider of a clone is a box, a wall or a 2 x 2 particle; and when
\* the main thread has panicked, it has not done so inside the loop of
\* for_each_cube, which alone leaves a clone behind.
C17_OnlyBoxes ==
    /\ \A c \in DOMAIN colliders : IsBox(colliders[c])
    /\ \A c \in DOMAIN snap : IsBox(snap[c])
    /\ collider # NoCollider => IsBox(collider)
    /\ \A i \in DOMAIN drawn :
          << drawn[i].w, drawn[i].h >> \in { << 2 * WallHalfLenX, 2 * WallHalfThick >>,
                                            << 2 * WallHalfThick, 2 * WallHalfLenY >>,
                                            << 2 * ParticleHalf, 2 * ParticleHalf >> }
    /\ upc = "m_panic" => snap = << >>

\* C17 witness: for_each_cube has visited the four walls and two particles
\* with different tags, one of them moved by step(), and is about to return.
C17_Witness ==
    /\ ForEachDone
    /\ Len(drawn) = WallCount + 2
    /\ snap[5].user_data # snap[6].user_data
    /\ snap[5].ty # snap[6].ty
    /\ drawn[6].w = 2

\* where State::new puts the walls
NewWalls ==
    [ w \in DOMAIN NewBoxes |->
        << NewColliders[NewBoxes[w]].tx, NewColliders[NewBoxes[w]].ty >> ]

\* C18: as long as no resize has returned, no particle has been inserted and
\* insert_particle has not been called; and whenever the World holds a
\* body, resize has returned and no wall is where State::new put it.
C18_ResizeBeforeInsert ==
    /\ prevResize = NoResize =>
          /\ bodies = << >>
          /\ spawn = << >>
          /\ upc \notin { "ip_lock", "ip_build", "ip_attach" }
    /\ bodies # << >> =>
          /\ prevResize # NoResize
          /\ \A w \in DOMAIN boxes : Walls[w] # NewWalls[w]

\* C18 witness: the first frame has called resize, which waits for the
\* collider set while the driver is inside a tick on the empty World, the
\* walls where State::new put them.
C18_Witness ==
    /\ upc = "rs_lock"
    /\ prevResize = NoResize
    /\ dpc = "s_sync"
    /\ bodies = << >>
    /\ Walls = NewWalls

\* the colour the claim gives for a tag: from its low eight bits alone
ColourOfLowByte(t) == << t % 256, t % 256, 255 - (t % 256), 255 >>

\* the draw closure's colour of every tag up to MaxTagSample is the one the
\* claim gives
SampledColours ==
    \A t \in 0 .. MaxTagSample : DrawColor(t) = ColourOfLowByte(t)

\* C19: red and green are the tag modulo 256 and blue is 255 less that, for
\* every tag up to MaxTagSample and for every rectangle drawn; rectangles
\* whose tags are congruent modulo 256 are drawn in one colour, and the
\* walls in (0, 0, 255).
C19_ColourFromLowByte ==
    /\ SampledColours
    /\ upc = "fe_iter" =>
          /\ \A i \in DOMAIN drawn :
                drawn[i].color = ColourOfLowByte(drawn[i].rand)
          /\ \A i, j \in DOMAIN drawn :
                drawn[i].rand % 256 = drawn[j].rand % 256
                   => drawn[i].color = drawn[j].color
          /\ \A i \in DOMAIN drawn :
                i <= WallCount => drawn[i].color = << 0, 0, 255, 255 >>

\* C19 witness: two particles whose tags differ and are congruent modulo
\* 256 (0x12345 and 0x245) have been drawn in one colour, (69, 69, 186), and
\* a wall in (0, 0, 255).
C19_Witness ==
    /\ upc = "fe_iter"
    /\ \E i, j \in DOMAIN drawn :
          /\ drawn[i].rand # drawn[j].rand
          /\ drawn[i].rand % 256 = drawn[j].rand % 256
          /\ drawn[i].color = << 69, 69, 186, 255 >>
          /\ drawn[j].color = << 69, 69, 186, 255 >>
    /\ drawn[1].color = << 0, 0, 255, 255 >>

====
